---------------------------- MODULE Spec2Model ----------------------------
(***************************************************************************)
(* Model of devtools/dependencies/dependency.py: the Dependency class, its *)
(* constructor, its property getters and setters and the rendering of the  *)
(* FetchContent declaration.                                               *)
(*                                                                         *)
(* Python strings are sequences of one-character strings, so that split,   *)
(* basename, concatenation, dedent and format are computed character by    *)
(* character.  Python's None, an uncaught Exception and the booleans are   *)
(* one-element sequences holding a token that is not a character.          *)
(***************************************************************************)
EXTENDS Naturals, Sequences, FiniteSets

VARIABLES
    pc,            \* "start" before __init__, "constructed", or "raised"
    self,          \* the instance attributes _name, _remote, _tag, _branch, setup
    last,          \* the most recent call: its name, arguments and result
    storedTag,     \* history: the tag most recently passed to __init__ or the tag setter
    remoteRaised   \* history: some read of the remote property has raised

vars == <<pc, self, last, storedTag, remoteRaised>>

---------------------------------------------------------------------------
(* Python values *)

None == <<"<None>">>
Err == <<"<Exception>">>
PyTrue == <<"<True>">>
PyFalse == <<"<False>">>

\* Truth value of None or of a str, as tested by `if x`, `x and y`, `not x`.
Truthy(v) == v # None /\ v # <<>>

\* str(v) as applied by str.format to a None or str argument.
NoneText == <<"N","o","n","e">>

str(v) == IF v = None THEN NoneText ELSE v

---------------------------------------------------------------------------
(* String literals of the source *)

default_branch == <<"m","a","s","t","e","r">>

OriginPrefix == <<"o","r","i","g","i","n","/">>

NjoyPrefix == <<".",".","/",".",".","/","n","j","o","y","/">>

NjoyNs == <<"n","j","o","y",":",":">>

ShallowLine == <<" "," "," "," ","G","I","T","_","S","H","A","L","L","O","W"," "," "," "," "," ","T","R","U","E","\n">>

CloseLine == <<" "," "," "," ",")","\n">>

\* The triple-quoted literal passed to dedent, as it stands in the source
\* (the backslash after the opening quotes joins the first line); the three
\* replacement fields are single tokens.
RawTemplate ==
    <<" "," "," "," "," "," "," "," "," "," "," "," ","s","h","a","c","l","_","F","e","t","c","h","C","o","n","t","e","n","t","_","D","e","c","l","a","r","e","("," ","{packageName}">>
    \o <<"\n"," "," "," "," "," "," "," "," "," "," "," "," "," "," "," "," ","G","I","T","_","R","E","P","O","S","I","T","O","R","Y"," "," ","{remote}">>
    \o <<"\n"," "," "," "," "," "," "," "," "," "," "," "," "," "," "," "," ","G","I","T","_","T","A","G"," "," "," "," "," "," "," "," "," ","{tag}">>
    \o <<"\n"," "," "," "," "," "," "," "," "," "," "," "," ">>

---------------------------------------------------------------------------
(* Values the callers pass *)

Foo == <<"f","o","o">>

Dimwits == <<"n","j","o","y",":",":","d","i","m","w","i","t","s">>

RemoteBar == <<"u","/","b","a","r">>

Dev == <<"d","e","v">>

V1 == <<"v","1",".","0">>

SetupText == <<"x","(",")">>

NameValues == {<<>>, Foo, Dimwits}

RemoteValues == {<<>>, RemoteBar}

BranchValues == {<<>>, Dev}

TagValues == {<<>>, V1}

SetupValues == {<<>>, SetupText}

\* A branch read back from the branch property is written again only while it
\* is at most this long.
MaxBranchLen == 10

---------------------------------------------------------------------------
(* Library functions *)

Max(S) == CHOOSE m \in S : \A x \in S : x <= m

Min(S) == CHOOSE m \in S : \A x \in S : m <= x

\* str.split(sep) for a one-character separator: the list of segments.
RECURSIVE split(_, _)
split(s, sep) ==
    LET hits == {i \in 1..Len(s) : s[i] = sep}
    IN  IF hits = {} THEN <<s>>
        ELSE LET i == Min(hits)
             IN  <<SubSeq(s, 1, i - 1)>> \o split(SubSeq(s, i + 1, Len(s)), sep)

\* os.path.basename (posixpath): everything after the last "/".
basename(p) ==
    LET hits == {i \in 1..Len(p) : p[i] = "/"}
        i == IF hits = {} THEN 0 ELSE Max(hits)
    IN  SubSeq(p, i + 1, Len(p))

\* "\n".join of a list of lines.
RECURSIVE join(_)
join(lines) ==
    IF Len(lines) = 0 THEN <<>>
    ELSE IF Len(lines) = 1 THEN lines[1]
    ELSE lines[1] \o <<"\n">> \o join(Tail(lines))

\* textwrap.dedent for text indented with blanks: lines of blanks only become
\* empty, and the longest common leading run of blanks of the others is removed.
LeadingBlanks(line) ==
    LET stops == {i \in 1..Len(line) : line[i] # " "}
    IN  IF stops = {} THEN Len(line) ELSE Min(stops) - 1

dedent(text) ==
    LET lines == split(text, "\n")
        blank(l) == LeadingBlanks(l) = Len(l)
        margins == {LeadingBlanks(lines[i]) : i \in {j \in 1..Len(lines) : ~blank(lines[j])}}
        margin == IF margins = {} THEN 0 ELSE Min(margins)
        strip(l) == IF blank(l) THEN <<>> ELSE SubSeq(l, margin + 1, Len(l))
    IN  join([i \in 1..Len(lines) |-> strip(lines[i])])

\* str.format with the keyword arguments packageName, remote and tag.
RECURSIVE format(_, _)
format(text, kw) ==
    IF text = <<>> THEN <<>>
    ELSE LET c == Head(text)
             piece == IF c = "{packageName}" THEN str(kw.packageName)
                      ELSE IF c = "{remote}" THEN str(kw.remote)
                      ELSE IF c = "{tag}" THEN str(kw.tag)
                      ELSE <<c>>
         IN  piece \o format(Tail(text), kw)

---------------------------------------------------------------------------
(* Properties of Dependency; o is the record of instance attributes *)

\* Dependency.live_at_head
live_at_head(o) == IF Truthy(o._branch) THEN TRUE ELSE FALSE

\* Dependency.tag (getter)
tag(o) == IF live_at_head(o) THEN OriginPrefix \o o._branch ELSE o._tag

\* Faulty variant: the branch getter returns the raw attribute.
branch_RawAttribute(o) == IF live_at_head(o) THEN o._branch ELSE o._tag

\* Dependency.branch (getter)
branch(o) == tag(o)

RECURSIVE remote(_)

\* Faulty variant: the first colon-delimited segment instead of the last.
packageName_FirstSegment(o) ==
    IF Truthy(o._name) THEN LET parts == split(o._name, ":") IN parts[1]
    ELSE LET r == remote(o) IN IF r = Err THEN Err ELSE basename(r)

\* Dependency.packageName
packageName(o) ==
    IF Truthy(o._name) THEN LET parts == split(o._name, ":") IN parts[Len(parts)]
    ELSE LET r == remote(o) IN IF r = Err THEN Err ELSE basename(r)

\* Faulty variant: the check that raises is missing.
remote_NoRaise(o) ==
    IF Truthy(o._remote) THEN o._remote
    ELSE IF ~Truthy(o._name) THEN NjoyPrefix
    ELSE NjoyPrefix \o packageName(o)

\* Dependency.remote (getter)
remote(o) ==
    IF Truthy(o._remote) THEN o._remote
    ELSE IF ~Truthy(o._name) THEN Err
    ELSE NjoyPrefix \o packageName(o)

\* Dependency.name (getter)
name(o) ==
    IF Truthy(o._name) THEN o._name
    ELSE LET r == remote(o) IN IF r = Err THEN Err ELSE basename(r)

\* Dependency.libName
libName(o) ==
    IF Truthy(o._name) THEN o._name
    ELSE LET r == remote(o) IN IF r = Err THEN Err ELSE NjoyNs \o basename(r)

\* Faulty variant: the shallow line is appended unconditionally.
fetchcontent_declare_AlwaysShallow(o) ==
    IF packageName(o) = Err \/ remote(o) = Err THEN Err
    ELSE LET head == format(dedent(RawTemplate),
                            [packageName |-> packageName(o), remote |-> remote(o), tag |-> tag(o)])
             closed == head \o ShallowLine \o CloseLine
         IN  IF Truthy(o.setup) THEN closed \o o.setup \o <<"\n">> ELSE closed

\* Dependency.fetchcontent_declare
fetchcontent_declare(o) ==
    IF packageName(o) = Err \/ remote(o) = Err THEN Err
    ELSE LET head == format(dedent(RawTemplate),
                            [packageName |-> packageName(o), remote |-> remote(o), tag |-> tag(o)])
             shallow == IF live_at_head(o) THEN head \o ShallowLine ELSE head
             closed == shallow \o CloseLine
         IN  IF Truthy(o.setup) THEN closed \o o.setup \o <<"\n">> ELSE closed

---------------------------------------------------------------------------
(* Calls *)

NoFields == [_name |-> None, _remote |-> None, _tag |-> None, _branch |-> None, setup |-> None]

\* Faulty variant: tests `is not None` instead of truth.
init_raises_IsNotNone(b, t) == t # None /\ b # None

\* Dependency.__init__: the test `if tag and branch` that raises
init_raises(b, t) == Truthy(t) /\ Truthy(b)

\* Faulty variant: the default branch is used only when both arguments are None.
init_fields_DefaultOnlyForNone(n, r, b, t, s) ==
    LET b2 == IF t = None /\ b = None THEN default_branch ELSE b
    IN  [_name |-> n, _remote |-> r, _tag |-> t, _branch |-> b2, setup |-> s]

\* Dependency.__init__: the default branch and the attribute assignments
init_fields(n, r, b, t, s) ==
    LET b2 == IF ~Truthy(t) /\ ~Truthy(b) THEN default_branch ELSE b
    IN  [_name |-> n, _remote |-> r, _tag |-> t, _branch |-> b2, setup |-> s]

\* name.setter
name_set(o, value) == [o EXCEPT !._name = value]

\* Faulty variant: setting the remote also drops the name.
remote_set_ClearsName(o, value) == [o EXCEPT !._remote = value, !._name = None]

\* remote.setter
remote_set(o, value) == [o EXCEPT !._remote = value]

\* branch.setter
branch_set(o, value) == [o EXCEPT !._branch = value, !._tag = None]

\* tag.setter
tag_set(o, value) == [o EXCEPT !._tag = value, !._branch = None]

Init ==
    /\ pc = "start"
    /\ self = NoFields
    /\ last = [op |-> "none", args |-> <<>>, ret |-> None]
    /\ storedTag = None
    /\ remoteRaised = FALSE

\* d = Dependency(name, remote, branch, tag, setup)
Construct ==
    /\ pc = "start"
    /\ \E n \in NameValues \cup {None}, r \in RemoteValues \cup {None},
          b \in BranchValues \cup {None}, t \in TagValues \cup {None},
          s \in SetupValues \cup {None} :
          IF init_raises(b, t)
          THEN /\ pc' = "raised"
               /\ last' = [op |-> "__init__", args |-> <<n, r, b, t, s>>, ret |-> Err]
               /\ UNCHANGED <<self, storedTag>>
          ELSE /\ pc' = "constructed"
               /\ self' = init_fields(n, r, b, t, s)
               /\ last' = [op |-> "__init__", args |-> <<n, r, b, t, s>>, ret |-> None]
               /\ storedTag' = t
    /\ UNCHANGED remoteRaised

\* d.name = value
name_setter ==
    /\ pc = "constructed"
    /\ \E value \in NameValues :
          /\ self' = name_set(self, value)
          /\ last' = [op |-> "name.setter", args |-> <<value>>, ret |-> None]
    /\ UNCHANGED <<pc, storedTag, remoteRaised>>

\* d.remote = value
remote_setter ==
    /\ pc = "constructed"
    /\ \E value \in RemoteValues :
          /\ self' = remote_set(self, value)
          /\ last' = [op |-> "remote.setter", args |-> <<value>>, ret |-> None]
    /\ UNCHANGED <<pc, storedTag, remoteRaised>>

\* d.branch = value
branch_setter ==
    /\ pc = "constructed"
    /\ \E value \in BranchValues :
          /\ self' = branch_set(self, value)
          /\ last' = [op |-> "branch.setter", args |-> <<value>>, ret |-> None]
    /\ UNCHANGED <<pc, storedTag, remoteRaised>>

\* d.branch = d.branch on a live-at-head instance: the branch setter called
\* with the value just read from the branch property
branch_writeback ==
    /\ pc = "constructed"
    /\ live_at_head(self)
    /\ Len(self._branch) <= MaxBranchLen
    /\ LET value == branch(self)
       IN  /\ self' = branch_set(self, value)
           /\ last' = [op |-> "branch.writeback", args |-> <<value>>, ret |-> None]
    /\ UNCHANGED <<pc, storedTag, remoteRaised>>

\* d.tag = value
tag_setter ==
    /\ pc = "constructed"
    /\ \E value \in TagValues :
          /\ self' = tag_set(self, value)
          /\ last' = [op |-> "tag.setter", args |-> <<value>>, ret |-> None]
          /\ storedTag' = value
    /\ UNCHANGED <<pc, remoteRaised>>

\* A read of a property or a call of a method that only computes a result.
Read(op, result) ==
    /\ pc = "constructed"
    /\ last' = [op |-> op, args |-> <<>>, ret |-> result]
    /\ UNCHANGED <<pc, self, storedTag>>

\* d.name
name_get == Read("name", name(self)) /\ UNCHANGED remoteRaised

\* d.libName
libName_get == Read("libName", libName(self)) /\ UNCHANGED remoteRaised

\* d.packageName
packageName_get == Read("packageName", packageName(self)) /\ UNCHANGED remoteRaised

\* d.remote
remote_get ==
    /\ Read("remote", remote(self))
    /\ remoteRaised' = (remoteRaised \/ remote(self) = Err)

\* d.branch
branch_get == Read("branch", branch(self)) /\ UNCHANGED remoteRaised

\* d.tag
tag_get == Read("tag", tag(self)) /\ UNCHANGED remoteRaised

\* d.live_at_head
live_at_head_get ==
    /\ Read("live_at_head", IF live_at_head(self) THEN PyTrue ELSE PyFalse)
    /\ UNCHANGED remoteRaised

\* Faulty variant: rendering consumes the setup text.
fetchcontent_declare_call_ConsumesSetup ==
    /\ pc = "constructed"
    /\ last' = [op |-> "fetchcontent_declare", args |-> <<>>, ret |-> fetchcontent_declare(self)]
    /\ self' = [self EXCEPT !.setup = None]
    /\ UNCHANGED <<pc, storedTag, remoteRaised>>

\* d.fetchcontent_declare()
fetchcontent_declare_call ==
    /\ Read("fetchcontent_declare", fetchcontent_declare(self))
    /\ UNCHANGED remoteRaised

Next ==
    \/ Construct
    \/ name_setter
    \/ remote_setter
    \/ branch_setter
    \/ branch_writeback
    \/ tag_setter
    \/ name_get
    \/ libName_get
    \/ packageName_get
    \/ remote_get
    \/ branch_get
    \/ tag_get
    \/ live_at_head_get
    \/ fetchcontent_declare_call

Spec == Init /\ [][Next]_vars

---------------------------------------------------------------------------
(* Claims *)

\* An optional value is set (supplied) when it is neither null nor empty.
Supplied(v) == v \notin {None, <<>>}

BranchModeActive == Supplied(self._branch)

TagModeActive == Supplied(self._tag)

Line(text) == text \o <<"\n">>

\* text occurs in s as a contiguous run of characters
Contains(s, text) ==
    \E k \in 0..(Len(s) - Len(text)) : SubSeq(s, k + 1, k + Len(text)) = text

OriginMaster == <<"o","r","i","g","i","n","/","m","a","s","t","e","r">>

NjoyFoo == <<".",".","/",".",".","/","n","j","o","y","/","f","o","o">>

NjoyDimwits == <<".",".","/",".",".","/","n","j","o","y","/","d","i","m","w","i","t","s">>

DeclareLabel == <<"s","h","a","c","l","_","F","e","t","c","h","C","o","n","t","e","n","t","_","D","e","c","l","a","r","e","("," ">>

RepositoryLabel == <<" "," "," "," ","G","I","T","_","R","E","P","O","S","I","T","O","R","Y"," "," ">>

TagLabel == <<" "," "," "," ","G","I","T","_","T","A","G"," "," "," "," "," "," "," "," "," ">>

ShallowText == <<" "," "," "," ","G","I","T","_","S","H","A","L","L","O","W"," "," "," "," "," ","T","R","U","E">>

CloseText == <<" "," "," "," ",")">>

\* C1: after a successful construction and any sequence of branch and tag
\* setter calls with string values, exactly one of branch mode and tag mode is
\* active: never both, never neither.
C1_ExactlyOneMode ==
    pc = "constructed" => (BranchModeActive /\ ~TagModeActive) \/ (TagModeActive /\ ~BranchModeActive)

\* C2: a construction fails, and leaves no object, exactly when both tag and
\* branch are supplied, whatever name, remote and setup are.
C2_ConstructRaisesIffBoth ==
    last.op = "__init__" =>
        IF Supplied(last.args[3]) /\ Supplied(last.args[4])
        THEN last.ret = Err /\ pc = "raised" /\ self = NoFields
        ELSE last.ret # Err /\ pc = "constructed"

C2_Witness ==
    /\ pc = "raised"
    /\ last.op = "__init__"
    /\ last.args = <<Foo, RemoteBar, Dev, V1, SetupText>>

\* C3: a construction supplying neither tag nor branch yields an object in
\* branch mode with branch "master"; reading live_at_head then gives true and
\* reading tag gives "origin/master".
C3_AfterDefaultInit ==
    /\ last.op = "__init__"
    /\ pc = "constructed"
    /\ ~Supplied(last.args[3])
    /\ ~Supplied(last.args[4])

C3_DefaultsToMaster ==
    /\ [](C3_AfterDefaultInit =>
            /\ self._branch = <<"m","a","s","t","e","r">>
            /\ live_at_head(self)
            /\ tag(self) = OriginMaster)
    /\ [][C3_AfterDefaultInit =>
            /\ last'.op = "live_at_head" => last'.ret = PyTrue
            /\ last'.op = "tag" => last'.ret = OriginMaster]_vars

C3_Witness ==
    /\ C3_AfterDefaultInit
    /\ last.args = <<Foo, None, <<>>, <<>>, None>>
    /\ tag(self) = OriginMaster

\* C4: a read of remote raises exactly when neither the name nor the remote is
\* set, and then (as on success) changes no attribute; once a read has raised,
\* a read that directly follows setting the name or the remote returns.
C4_RemoteRaisesIffNeither ==
    /\ [](last.op = "remote" =>
            (last.ret = Err <=> (~Supplied(self._name) /\ ~Supplied(self._remote))))
    /\ [][/\ last'.op = "remote" => self' = self
          /\ (/\ remoteRaised
              /\ last.op \in {"name.setter", "remote.setter"}
              /\ Supplied(last.args[1])
              /\ last'.op = "remote") => last'.ret # Err]_vars

C4_Witness ==
    /\ remoteRaised
    /\ last.op = "remote"
    /\ last.ret # Err
    /\ ~Supplied(self._remote)

\* C5: a read of remote returns the stored remote when it is set, and
\* otherwise, when the name is set, "../../njoy/" followed by the part of the
\* name after its last colon.
C5_ResolvedRemote ==
    (last.op = "remote" /\ pc = "constructed") =>
        /\ Supplied(self._remote) => last.ret = self._remote
        /\ (~Supplied(self._remote) /\ Supplied(self._name)) =>
              LET n == self._name
              IN  /\ \E k \in 0..Len(n) :
                        /\ k = 0 \/ n[k] = ":"
                        /\ \A i \in (k + 1)..Len(n) : n[i] # ":"
                        /\ last.ret = <<".",".","/",".",".","/","n","j","o","y","/">> \o SubSeq(n, k + 1, Len(n))
                  /\ n = Foo => last.ret = NjoyFoo
                  /\ n = Dimwits => last.ret = NjoyDimwits

C5_Witness ==
    /\ last.op = "remote"
    /\ self._name = Dimwits
    /\ ~Supplied(self._remote)
    /\ last.ret = NjoyDimwits

\* C6: a read of tag returns "origin/" followed by the branch when the object
\* is live at head, and otherwise the tag most recently stored by the
\* constructor or the tag setter; live_at_head is true iff branch mode is active.
C6_ResolvedTag ==
    /\ last.op = "tag" =>
          last.ret = IF BranchModeActive THEN <<"o","r","i","g","i","n","/">> \o self._branch ELSE storedTag
    /\ last.op = "live_at_head" => (last.ret = PyTrue <=> BranchModeActive)

\* C7: while the name or the remote is set, fetchcontent_declare returns the
\* declare line, the repository line and the tag line, then the shallow line
\* iff the object is live at head, then the closing line, then the setup text
\* and a newline iff the setup text is not empty.
ExpectedDeclaration(o) ==
    Line(DeclareLabel \o str(packageName(o)))
    \o Line(RepositoryLabel \o str(remote(o)))
    \o Line(TagLabel \o str(tag(o)))
    \o (IF live_at_head(o) THEN Line(ShallowText) ELSE <<>>)
    \o Line(CloseText)
    \o (IF Supplied(o.setup) THEN Line(o.setup) ELSE <<>>)

C7_DeclarationShape ==
    (last.op = "fetchcontent_declare" /\ (Supplied(self._name) \/ Supplied(self._remote))) =>
        /\ last.ret = ExpectedDeclaration(self)
        /\ TagModeActive => ~Contains(last.ret, ShallowText)
        /\ self._branch = default_branch => Contains(last.ret, Line(ShallowText))

C7_Witness ==
    /\ last.op = "fetchcontent_declare"
    /\ self._name = Foo
    /\ self._tag = V1
    /\ self.setup = SetupText
    /\ Contains(last.ret, TagLabel \o V1)
    /\ ~Contains(last.ret, ShallowText)

\* C8: the rendered text is a function of the five attributes alone, whatever
\* calls led to them (in every reachable state that follows a rendering, the
\* result is RenderOfFields of the attributes, which reads nothing else), and
\* rendering changes no attribute, so that rendering again returns the same text.
RenderOfFields(o) ==
    IF ~Supplied(o._name) /\ ~Supplied(o._remote) THEN Err ELSE ExpectedDeclaration(o)

C8_RenderPure ==
    /\ [](last.op = "fetchcontent_declare" => last.ret = RenderOfFields(self))
    /\ [][last'.op = "fetchcontent_declare" =>
            /\ self' = self
            /\ last'.ret = RenderOfFields(self)]_vars

C8_Witness ==
    /\ last.op = "fetchcontent_declare"
    /\ last.ret # Err
    /\ storedTag = V1
    /\ self._branch = OriginPrefix \o Dev
    /\ self._remote = RemoteBar

\* C9: a read of branch returns what a read of tag returns: "origin/" and the
\* branch in branch mode, the stored tag otherwise.  So it never returns the
\* value the branch setter was just given, and writing the value read from
\* branch back into branch puts one more "origin/" in front of the resolved tag.
C9_BranchReadsTag ==
    /\ [](/\ last.op = "branch" =>
                last.ret = IF BranchModeActive THEN <<"o","r","i","g","i","n","/">> \o self._branch
                           ELSE self._tag
          /\ last.op = "branch.setter" => branch(self) # last.args[1])
    /\ [][/\ (last.op = "tag" /\ last'.op = "branch") => last'.ret = last.ret
          /\ (last.op = "branch.setter" /\ last'.op = "branch") => last'.ret # last.args[1]
          /\ (last'.op = "branch.writeback" /\ self' # self) =>
                tag(self') = <<"o","r","i","g","i","n","/">> \o tag(self)]_vars

C9_Witness ==
    /\ last.op = "branch.writeback"
    /\ last.args = <<OriginPrefix \o Dev>>
    /\ tag(self) = OriginPrefix \o OriginPrefix \o Dev

\* C10: the branch and tag setters leave name, remote and setup alone; the
\* name setter leaves remote, branch, tag and setup alone; the remote setter
\* leaves name, branch, tag and setup alone; every read, returning or raising,
\* leaves all attributes alone.
ReadOps == {"name", "libName", "packageName", "remote", "branch", "tag", "live_at_head"}

C10_Frame ==
    [][vars' # vars =>
        /\ last'.op \in {"branch.setter", "branch.writeback", "tag.setter"} =>
              /\ self'._name = self._name
              /\ self'._remote = self._remote
              /\ self'.setup = self.setup
        /\ last'.op = "name.setter" =>
              /\ self'._remote = self._remote
              /\ self'._branch = self._branch
              /\ self'._tag = self._tag
              /\ self'.setup = self.setup
        /\ last'.op = "remote.setter" =>
              /\ self'._name = self._name
              /\ self'._branch = self._branch
              /\ self'._tag = self._tag
              /\ self'.setup = self.setup
        /\ last'.op \in ReadOps => self' = self]_vars

C10_Witness ==
    /\ last.op = "remote.setter"
    /\ last.args = <<RemoteBar>>
    /\ self._name = Dimwits
    /\ self._tag = V1
    /\ self.setup = SetupText

=============================================================================
